---- MODULE Spec2Model ----
(***************************************************************************)
(* Model of the IPTV catalogue API handlers: the advanced search           *)
(* (api/search.js), the strict search and the /channels handler that load  *)
(* their data with fetch, the bundled /channels handler and the index      *)
(* handler.  JavaScript strings are sequences of one-character strings, so *)
(* that toLowerCase, toUpperCase, includes and parseInt are computed and   *)
(* not assumed.                                                            *)
(***************************************************************************)
EXTENDS Integers, Sequences, FiniteSets, TLC

(***************************************************************************)
(* JavaScript values                                                       *)
(***************************************************************************)

\* `undefined` where a string is expected (an absent query parameter or field)
Undefined == <<"#undefined">>

\* `undefined` where a list of strings is expected (an absent alt_names)
UndefinedList == << <<"#undefined">> >>

\* the truthiness of a string value: undefined and "" are falsy
Truthy(s) == s # Undefined /\ s # <<>>

UpperLetters == <<"A", "B", "C", "D", "E", "F", "G", "H", "I", "J", "K", "L", "M",
                  "N", "O", "P", "Q", "R", "S", "T", "U", "V", "W", "X", "Y", "Z">>

LowerLetters == <<"a", "b", "c", "d", "e", "f", "g", "h", "i", "j", "k", "l", "m",
                  "n", "o", "p", "q", "r", "s", "t", "u", "v", "w", "x", "y", "z">>

IndexIn(letters, ch) ==
    IF \E i \in DOMAIN letters : letters[i] = ch
    THEN CHOOSE i \in DOMAIN letters : letters[i] = ch
    ELSE 0

\* the lower-case letter of every upper-case letter, and the converse
LowerCaseOf ==
    [ch \in {UpperLetters[i] : i \in DOMAIN UpperLetters} |->
        LowerLetters[IndexIn(UpperLetters, ch)]]

UpperCaseOf ==
    [ch \in {LowerLetters[i] : i \in DOMAIN LowerLetters} |->
        UpperLetters[IndexIn(LowerLetters, ch)]]

\* String.prototype.toLowerCase, character by character
toLowerCase(s) ==
    [i \in DOMAIN s |->
        IF s[i] \in DOMAIN LowerCaseOf THEN LowerCaseOf[s[i]] ELSE s[i]]

\* String.prototype.toUpperCase, character by character
toUpperCase(s) ==
    [i \in DOMAIN s |->
        IF s[i] \in DOMAIN UpperCaseOf THEN UpperCaseOf[s[i]] ELSE s[i]]

\* String.prototype.includes: t occurs in s as a contiguous substring
includes(s, t) ==
    \E i \in 0..(Len(s) - Len(t)) : SubSeq(s, i + 1, i + Len(t)) = t

\* Array.prototype.includes / some(x => x === v) on a list
listIncludes(list, v) == \E i \in DOMAIN list : list[i] = v

(***************************************************************************)
(* Numbers: a JavaScript number is an integer or NaN                       *)
(***************************************************************************)

Num(n) == [nan |-> FALSE, n |-> n]

NaN == [nan |-> TRUE, n |-> 0]

Digits == <<"0", "1", "2", "3", "4", "5", "6", "7", "8", "9">>

IsDigit(ch) == IndexIn(Digits, ch) # 0

DigitValue(ch) == IndexIn(Digits, ch) - 1

RECURSIVE SkipSpaces(_)
SkipSpaces(s) ==
    IF s # <<>> /\ Head(s) = " " THEN SkipSpaces(Tail(s)) ELSE s

\* the value of the longest prefix of digits of s, continuing from acc
RECURSIVE DigitPrefix(_, _)
DigitPrefix(s, acc) ==
    IF s # <<>> /\ IsDigit(Head(s))
    THEN DigitPrefix(Tail(s), 10 * acc + DigitValue(Head(s)))
    ELSE acc

\* parseInt of a string: leading blanks, an optional sign, then the longest
\* prefix of digits; NaN when there is no digit at that place
parseIntString(s) ==
    LET t == SkipSpaces(s)
        neg == t # <<>> /\ Head(t) = "-"
        u == IF t # <<>> /\ Head(t) \in {"-", "+"} THEN Tail(t) ELSE t
    IN  IF u # <<>> /\ IsDigit(Head(u))
        THEN Num(IF neg THEN 0 - DigitPrefix(u, 0) ELSE DigitPrefix(u, 0))
        ELSE NaN

\* a + b on numbers
Plus(a, b) == IF a.nan \/ b.nan THEN NaN ELSE Num(a.n + b.n)

\* a < b where b is an integer (a length): false when a is NaN
LessThan(a, n) == ~a.nan /\ a.n < n

\* the relative index Array.prototype.slice makes of an argument
RelativeIndex(a, len) ==
    IF a.nan THEN 0
    ELSE IF a.n < 0 THEN (IF len + a.n < 0 THEN 0 ELSE len + a.n)
    ELSE IF a.n > len THEN len ELSE a.n

\* Array.prototype.slice(start, end)
slice(list, start, end) ==
    SubSeq(list, RelativeIndex(start, Len(list)) + 1, RelativeIndex(end, Len(list)))

\* the decimal text of a small non-negative integer, as a client writes it
\* into a query string
RECURSIVE ToText(_)
ToText(n) == IF n < 10 THEN <<Digits[n + 1]>> ELSE ToText(n \div 10) \o <<Digits[(n % 10) + 1]>>

(***************************************************************************)
(* The catalogue: rows of channels.json, streams.json, logos.json and      *)
(* countries.json                                                          *)
(***************************************************************************)

\* strings used by the rows and the requests below
StrUS == <<"U", "S">>
StrUs == <<"u", "s">>
StrNews == <<"n">>
StrSport == <<"s">>

\* channel rows: id, name, alt_names, network, owners, country, categories, is_nsfw
ChannelPool ==
    << [id |-> "c1", name |-> <<"A", "b">>, alt_names |-> << <<"n", "B">> >>,
        network |-> Undefined, owners |-> << >>, country |-> StrUS,
        categories |-> <<StrNews>>, is_nsfw |-> FALSE],
       [id |-> "c2", name |-> <<"b", "c">>, alt_names |-> << <<"x">> >>,
        network |-> <<"A">>, owners |-> << <<"B", "a">> >>, country |-> StrUs,
        categories |-> <<StrNews, StrSport>>, is_nsfw |-> TRUE],
       [id |-> "c3", name |-> <<"C">>, alt_names |-> UndefinedList,
        network |-> Undefined, owners |-> << >>, country |-> Undefined,
        categories |-> << >>, is_nsfw |-> FALSE] >>

\* an absent key of a row whose keys are plain names (ids, feeds)
NoKey == "#undefined"

\* !x for such a key: undefined and "" are falsy
KeyFalsy(k) == k \in {NoKey, ""}

\* stream rows: channel key, feed key, url
StreamPool ==
    << [channel |-> "c1", feed |-> NoKey, url |-> "s1"],
       [channel |-> "c2", feed |-> "SD", url |-> "s2"],
       [channel |-> NoKey, feed |-> "c1", url |-> "s3"] >>

\* logo rows: channel key, feed, url
LogoPool ==
    << [channel |-> "c1", feed |-> "SD", url |-> "l1"],
       [channel |-> "c1", feed |-> NoKey, url |-> "l2"],
       [channel |-> "c1", feed |-> "", url |-> "l3"],
       [channel |-> "c1", feed |-> "HD", url |-> "l4"] >>

\* country rows: code, name, flag
CountryPool ==
    << [code |-> StrUS, name |-> "United States", flag |-> "flag-us"] >>

\* the longest channels, streams and logos documents of the model
MaxChannels == 2
MaxStreams == 2
MaxLogos == 2

\* the one-to-one maps of 1..k into 1..n
Injections(k, n) ==
    {g \in [1..k -> 1..n] : \A i, j \in 1..k : i # j => g[i] # g[j]}

\* the lists without repetition of at most n rows of a pool, in every order
ListsOf(pool, n) ==
    UNION { { [i \in 1..k |-> pool[g[i]]] : g \in Injections(k, Len(pool)) } :
            k \in 0..(IF n < Len(pool) THEN n ELSE Len(pool)) }

(***************************************************************************)
(* Requests and responses                                                  *)
(***************************************************************************)

\* a query parameter given several times arrives as an array, not a string
ArrayValue == <<"#array">>

\* req.query with no parameter at all
NoQuery ==
    [q |-> Undefined, search |-> Undefined, country |-> Undefined,
     category |-> Undefined, nsfw |-> Undefined, hasStreams |-> Undefined,
     limit |-> Undefined, offset |-> Undefined, code |-> Undefined,
     includeChannels |-> Undefined]

StrTrue == <<"t", "r", "u", "e">>
StrFalse == <<"f", "a", "l", "s", "e">>

\* res.status(200).end()
EndResponse ==
    [status |-> 200, kind |-> "end", error |-> "", data |-> <<>>, total |-> 0,
     limit |-> NaN, offset |-> NaN, hasMore |-> FALSE]

\* res.status(code).json({success: false, error})
ErrorResponse(code, error) ==
    [status |-> code, kind |-> "error", error |-> error, data |-> <<>>, total |-> 0,
     limit |-> NaN, offset |-> NaN, hasMore |-> FALSE]

\* res.json({success: true, data, total}) of the handlers without pagination block
SuccessResponse(data) ==
    [status |-> 200, kind |-> "success", error |-> "", data |-> data,
     total |-> Len(data), limit |-> NaN, offset |-> NaN, hasMore |-> FALSE]

(***************************************************************************)
(* The advanced search (api/search.js)                                     *)
(***************************************************************************)

DefaultLimitAdvanced == 50
DefaultOffsetAdvanced == 0

\* x || [] for a list field
OrEmptyList(list) == IF list = UndefinedList THEN <<>> ELSE list

\* the streams of a channel as the bundled handlers select them
StreamsOfChannel(streams, id) == SelectSeq(streams, LAMBDA s : s.channel = id)

\* the logos of a channel as the bundled handlers select them
LogosOfChannel(logos, id) == SelectSeq(logos, LAMBDA l : l.channel = id)

\* the result row the advanced search makes of a channel (`x || null` keeps
\* Undefined here: both are falsy and both make ?. yield undefined)
EnrichAdvanced(channel, streams, logos) ==
    [id |-> channel.id,
     name |-> channel.name,
     alternativeNames |-> OrEmptyList(channel.alt_names),
     network |-> channel.network,
     owners |-> OrEmptyList(channel.owners),
     country |-> channel.country,
     categories |-> OrEmptyList(channel.categories),
     isNsfw |-> channel.is_nsfw,
     streamCount |-> Len(StreamsOfChannel(streams, channel.id)),
     logoCount |-> Len(LogosOfChannel(logos, channel.id)),
     streams |-> [i \in DOMAIN StreamsOfChannel(streams, channel.id) |->
                    StreamsOfChannel(streams, channel.id)[i].url],
     logos |-> [i \in DOMAIN LogosOfChannel(logos, channel.id) |->
                    LogosOfChannel(logos, channel.id)[i].url]]

\* channels.map(channel => {...})
EnrichAllAdvanced(b) ==
    [i \in DOMAIN b.channels |-> EnrichAdvanced(b.channels[i], b.streams, b.logos)]

\* s?.toLowerCase().includes(searchLower)
OptIncludesLower(s, searchLower) ==
    s # Undefined /\ includes(toLowerCase(s), searchLower)

\* list?.some(x => x.toLowerCase().includes(searchLower))
SomeIncludesLower(list, searchLower) ==
    \E i \in DOMAIN list : includes(toLowerCase(list[i]), searchLower)

\* the text predicate of the advanced search
MatchesSearch(c, searchLower) ==
    \/ OptIncludesLower(c.name, searchLower)
    \/ SomeIncludesLower(c.alternativeNames, searchLower)
    \/ OptIncludesLower(c.network, searchLower)
    \/ SomeIncludesLower(c.owners, searchLower)

\* if (q) results = results.filter(...)
FilterSearch(results, query) ==
    IF Truthy(query.q)
    THEN SelectSeq(results, LAMBDA c : MatchesSearch(c, toLowerCase(query.q)))
    ELSE results

\* c.country?.toLowerCase() === country.toLowerCase()
CountryEqualsLower(stored, country) ==
    stored # Undefined /\ toLowerCase(stored) = toLowerCase(country)

\* if (country) results = results.filter(...)
FilterCountry(results, query) ==
    IF Truthy(query.country)
    THEN SelectSeq(results, LAMBDA c : CountryEqualsLower(c.country, query.country))
    ELSE results

\* if (category) results = results.filter(...)
FilterCategory(results, query) ==
    IF Truthy(query.category)
    THEN SelectSeq(results, LAMBDA c :
            \E i \in DOMAIN c.categories :
                toLowerCase(c.categories[i]) = toLowerCase(query.category))
    ELSE results

\* if (nsfw !== undefined) results = results.filter(c => c.isNsfw === (nsfw === 'true'))
FilterNsfw(results, query) ==
    IF query.nsfw # Undefined
    THEN SelectSeq(results, LAMBDA c : c.isNsfw = (query.nsfw = StrTrue))
    ELSE results

\* if (hasStreams === 'true') results = results.filter(c => c.streamCount > 0)
FilterHasStreams(results, query) ==
    IF query.hasStreams = StrTrue
    THEN SelectSeq(results, LAMBDA c : c.streamCount > 0)
    ELSE results

\* filters chained with else: only the first supplied filter is applied
ApplyFirstSuppliedFilter(results, query) ==
    IF Truthy(query.q) THEN FilterSearch(results, query)
    ELSE IF Truthy(query.country) THEN FilterCountry(results, query)
    ELSE IF Truthy(query.category) THEN FilterCategory(results, query)
    ELSE IF query.nsfw # Undefined THEN FilterNsfw(results, query)
    ELSE FilterHasStreams(results, query)

\* the five filters in the order of the code
ApplyFilters(results, query) ==
    FilterHasStreams(
        FilterNsfw(
            FilterCategory(
                FilterCountry(
                    FilterSearch(results, query), query), query), query), query)

\* x goes behind the rows whose stream count is not smaller: the place a stable
\* sort with the comparator (a, b) => b.streamCount - a.streamCount gives it
RECURSIVE InsertByStreamCount(_, _)
InsertByStreamCount(sorted, x) ==
    IF sorted = <<>> THEN <<x>>
    ELSE IF Head(sorted).streamCount >= x.streamCount
         THEN <<Head(sorted)>> \o InsertByStreamCount(Tail(sorted), x)
         ELSE <<x>> \o sorted

\* results.sort((a, b) => b.streamCount - a.streamCount)
RECURSIVE SortByStreamCount(_)
SortByStreamCount(list) ==
    IF list = <<>> THEN <<>>
    ELSE InsertByStreamCount(SortByStreamCount(SubSeq(list, 1, Len(list) - 1)),
                             list[Len(list)])

\* the filtered and sorted list, before pagination
AdvancedResults(b, query) ==
    SortByStreamCount(ApplyFilters(EnrichAllAdvanced(b), query))

\* parseInt(limit), limit = 50 when the parameter is undefined
ParsedLimitAdvanced(query) ==
    IF query.limit = Undefined THEN Num(DefaultLimitAdvanced)
    ELSE parseIntString(query.limit)

\* parseInt(offset), offset = 0 when the parameter is undefined
ParsedOffsetAdvanced(query) ==
    IF query.offset = Undefined THEN Num(DefaultOffsetAdvanced)
    ELSE parseIntString(query.offset)

\* a page whose end is the limit, not the offset plus the limit
PageOfEndAtLimit(results, parsedOffset, parsedLimit) ==
    slice(results, parsedOffset, parsedLimit)

\* results.slice(parsedOffset, parsedOffset + parsedLimit)
PageOf(results, parsedOffset, parsedLimit) ==
    slice(results, parsedOffset, Plus(parsedOffset, parsedLimit))

\* a hasMore that still announces a page when the window ends at the total
HasMoreOrEqual(parsedOffset, parsedLimit, total) ==
    LessThan(Plus(parsedOffset, parsedLimit), total + 1)

\* hasMore: parsedOffset + parsedLimit < total
HasMore(parsedOffset, parsedLimit, total) ==
    LessThan(Plus(parsedOffset, parsedLimit), total)

\* a parameter that is an array has no toLowerCase: q.toLowerCase() throws
AdvancedThrows(query) == query.q = ArrayValue

\* the body of the try block: the response, or the 500 of the catch block
AdvancedTry(b, query) ==
    IF AdvancedThrows(query)
    THEN ErrorResponse(500, "INTERNAL_ERROR")
    ELSE [status |-> 200, kind |-> "success", error |-> "",
          data |-> PageOf(AdvancedResults(b, query),
                          ParsedOffsetAdvanced(query), ParsedLimitAdvanced(query)),
          total |-> Len(AdvancedResults(b, query)),
          limit |-> ParsedLimitAdvanced(query),
          offset |-> ParsedOffsetAdvanced(query),
          hasMore |-> HasMore(ParsedOffsetAdvanced(query), ParsedLimitAdvanced(query),
                              Len(AdvancedResults(b, query)))]

\* what a handler run leaves: the responses sent, and whether an exception
\* left the handler
Sent(response) == [resp |-> <<response>>, escaped |-> FALSE]
Escaped == [resp |-> <<>>, escaped |-> TRUE]

\* the whole handler: preflight, the destructuring of req.query (outside the
\* try block), then the try block
AdvancedHandler(b, r) ==
    IF r.method = "OPTIONS" THEN Sent(EndResponse)
    ELSE IF r.queryThrows THEN Escaped
    ELSE Sent(AdvancedTry(b, r.query))

(***************************************************************************)
(* The bundled /channels handler and the index handler                     *)
(***************************************************************************)

\* the result row of the bundled /channels handler
EnrichBundledChannel(channel, streams, logos) ==
    [id |-> channel.id,
     name |-> channel.name,
     alternativeNames |-> OrEmptyList(channel.alt_names),
     network |-> channel.network,
     owners |-> OrEmptyList(channel.owners),
     country |-> channel.country,
     categories |-> OrEmptyList(channel.categories),
     isNsfw |-> channel.is_nsfw,
     streams |-> [i \in DOMAIN StreamsOfChannel(streams, channel.id) |->
                    StreamsOfChannel(streams, channel.id)[i].url],
     logos |-> [i \in DOMAIN LogosOfChannel(logos, channel.id) |->
                    LogosOfChannel(logos, channel.id)[i].url]]

\* the country filter, then the text filter over name, alternative names and network
ChannelsBundledResults(b, query) ==
    LET all == [i \in DOMAIN b.channels |->
                    EnrichBundledChannel(b.channels[i], b.streams, b.logos)]
        byCountry == IF Truthy(query.country)
                     THEN SelectSeq(all, LAMBDA c :
                              CountryEqualsLower(c.country, query.country))
                     ELSE all
    IN  IF Truthy(query.search)
        THEN SelectSeq(byCountry, LAMBDA c :
                \/ OptIncludesLower(c.name, toLowerCase(query.search))
                \/ SomeIncludesLower(c.alternativeNames, toLowerCase(query.search))
                \/ OptIncludesLower(c.network, toLowerCase(query.search)))
        ELSE byCountry

\* the whole bundled /channels handler; req.query is read outside the try block
ChannelsBundledHandler(b, r) ==
    IF r.method = "OPTIONS" THEN Sent(EndResponse)
    ELSE IF r.queryThrows THEN Escaped
    ELSE Sent(SuccessResponse(ChannelsBundledResults(b, r.query)))

\* the index handler: the preflight answer or the static description; it reads
\* no query parameter and has no try block
IndexHandler(r) ==
    IF r.method = "OPTIONS" THEN Sent(EndResponse)
    ELSE Sent(SuccessResponse(<<>>))

(***************************************************************************)
(* /categories (api/categories.js)                                         *)
(***************************************************************************)

\* the number of channels a category entry shows
TopChannelsCap == 5

\* categoryMap.has(category): the position of the entry in insertion order, 0
\* when there is none
RECURSIVE CategoryIndex(_, _)
CategoryIndex(map, category) ==
    IF map = <<>> THEN 0
    ELSE IF map[Len(map)].name = category /\
            CategoryIndex(SubSeq(map, 1, Len(map) - 1), category) = 0
         THEN Len(map)
         ELSE CategoryIndex(SubSeq(map, 1, Len(map) - 1), category)

\* one round of channel.categories.forEach: the entry is created on first
\* sight, then counted and given the channel
AddToCategory(map, category, channel) ==
    LET had == CategoryIndex(map, category)
        withEntry == IF had = 0
                     THEN Append(map, [name |-> category, channelCount |-> 0,
                                       channels |-> <<>>])
                     ELSE map
        at == IF had = 0 THEN Len(withEntry) ELSE had
    IN  [withEntry EXCEPT
            ![at].channelCount = @ + 1,
            ![at].channels = Append(@, [id |-> channel.id, name |-> channel.name,
                                        country |-> channel.country])]

\* channel.categories.forEach over the categories of one channel
RECURSIVE AddCategories(_, _, _)
AddCategories(map, categories, channel) ==
    IF categories = <<>> THEN map
    ELSE AddCategories(AddToCategory(map, Head(categories), channel),
                       Tail(categories), channel)

\* channels.forEach: a channel whose categories is not an array adds nothing
RECURSIVE CategoryMap(_)
CategoryMap(channels) ==
    IF channels = <<>> THEN <<>>
    ELSE LET before == CategoryMap(SubSeq(channels, 1, Len(channels) - 1))
             channel == channels[Len(channels)]
         IN  IF channel.categories = UndefinedList THEN before
             ELSE AddCategories(before, channel.categories, channel)

\* the place of x in a list kept by non-increasing channelCount (the sort is stable)
RECURSIVE InsertByChannelCount(_, _)
InsertByChannelCount(sorted, x) ==
    IF sorted = <<>> THEN <<x>>
    ELSE IF Head(sorted).channelCount >= x.channelCount
         THEN <<Head(sorted)>> \o InsertByChannelCount(Tail(sorted), x)
         ELSE <<x>> \o sorted

\* .sort((a, b) => b.channelCount - a.channelCount)
RECURSIVE SortByChannelCount(_)
SortByChannelCount(list) ==
    IF list = <<>> THEN <<>>
    ELSE InsertByChannelCount(SortByChannelCount(SubSeq(list, 1, Len(list) - 1)),
                              list[Len(list)])

\* the whole list of the channels of a category, where the handler cuts it
TopChannelsUncut(cat) == cat.channels

\* cat.channels.slice(0, 5)
TopChannels(cat) == slice(cat.channels, Num(0), Num(TopChannelsCap))

\* cat.name.charAt(0).toUpperCase() + cat.name.slice(1)
DisplayName(name) ==
    toUpperCase(SubSeq(name, 1, 1)) \o slice(name, Num(1), Num(Len(name)))

\* Array.from(categoryMap.values()).sort(...).map(...)
CategoriesData(channels) ==
    LET sorted == SortByChannelCount(CategoryMap(channels))
    IN  [i \in DOMAIN sorted |->
            [name |-> sorted[i].name,
             displayName |-> DisplayName(sorted[i].name),
             channelCount |-> sorted[i].channelCount,
             topChannels |-> TopChannels(sorted[i])]]

\* res.status(200).json({success: true, count, totalChannels, data}): `total`
\* holds totalChannels, count is the length of data
CountedResponse(data, totalChannels) ==
    [SuccessResponse(data) EXCEPT !.total = totalChannels]

\* the whole /categories handler; it reads no query parameter
CategoriesHandler(b, r) ==
    IF r.method = "OPTIONS" THEN Sent(EndResponse)
    ELSE Sent(CountedResponse(CategoriesData(b.channels), Len(b.channels)))

(***************************************************************************)
(* The handlers that fetch the four documents: the strict search and       *)
(* /channels                                                               *)
(***************************************************************************)

DefaultLimitStrict == 20
DefaultLimitChannels == 50

\* null in a result row whose fields are plain names
Null == "#null"

\* streams.filter(stream => stream.channel === channel.id || stream.feed === channel.id)
StreamsByChannelOrFeed(streams, id) ==
    SelectSeq(streams, LAMBDA s : s.channel = id \/ s.feed = id)

\* Array.prototype.find over the positions `hits` that satisfy the predicate:
\* the row at the first of them, as a list of 0 or 1 rows
FindAt(list, hits) ==
    IF hits = {} THEN <<>>
    ELSE <<list[CHOOSE i \in hits : \A j \in hits : i <= j]>>

\* a selection without the preference: the first logo of the channel
ChooseLogoFirstMatch(logos, id) ==
    FindAt(logos, {i \in DOMAIN logos : logos[i].channel = id})

\* logos.find(l => l.channel === id && !l.feed) || logos.find(l => l.channel === id)
ChooseLogo(logos, id) ==
    IF FindAt(logos, {i \in DOMAIN logos :
                        logos[i].channel = id /\ KeyFalsy(logos[i].feed)}) # <<>>
    THEN FindAt(logos, {i \in DOMAIN logos :
                        logos[i].channel = id /\ KeyFalsy(logos[i].feed)})
    ELSE FindAt(logos, {i \in DOMAIN logos : logos[i].channel = id})

\* countries.find(c => c.code === channel.country)
FindCountry(countries, code) ==
    FindAt(countries, {i \in DOMAIN countries : countries[i].code = code})

\* the result row of the fetching handlers
EnrichFetched(channel, d) ==
    [id |-> channel.id,
     name |-> channel.name,
     alt_names |-> channel.alt_names,
     country |-> channel.country,
     country_name |-> IF FindCountry(d.countries, channel.country) # <<>>
                      THEN FindCountry(d.countries, channel.country)[1].name
                      ELSE Null,
     country_flag |-> IF FindCountry(d.countries, channel.country) # <<>>
                      THEN FindCountry(d.countries, channel.country)[1].flag
                      ELSE Null,
     categories |-> channel.categories,
     is_nsfw |-> channel.is_nsfw,
     logo |-> IF ChooseLogo(d.logos, channel.id) # <<>>
              THEN ChooseLogo(d.logos, channel.id)[1].url
              ELSE Null,
     streams |-> [i \in DOMAIN StreamsByChannelOrFeed(d.streams, channel.id) |->
                    StreamsByChannelOrFeed(d.streams, channel.id)[i].url]]

\* channel.country === country.toUpperCase()
CountryEqualsUpper(stored, country) == stored = toUpperCase(country)

\* channel.categories.includes(category.toLowerCase())
HasCategoryLower(categories, category) ==
    listIncludes(categories, toLowerCase(category))

\* parseInt(limit) with the handler's default for an undefined parameter
ParsedLimit(query, default) ==
    IF query.limit = Undefined THEN Num(default) ELSE parseIntString(query.limit)

\* the strict search: the channels matching q, country and category
StrictMatches(d, query) ==
    LET byText == SelectSeq(d.channels, LAMBDA c :
                    \/ includes(toLowerCase(c.name), toLowerCase(query.q))
                    \/ /\ c.alt_names # UndefinedList
                       /\ SomeIncludesLower(c.alt_names, toLowerCase(query.q)))
        byCountry == IF Truthy(query.country)
                     THEN SelectSeq(byText, LAMBDA c :
                              CountryEqualsUpper(c.country, query.country))
                     ELSE byText
    IN  IF Truthy(query.category)
        THEN SelectSeq(byCountry, LAMBDA c :
                HasCategoryLower(c.categories, query.category))
        ELSE byCountry

\* results.slice(0, parseInt(limit)).map(channel => {...})
StrictResults(d, query) ==
    LET page == slice(StrictMatches(d, query), Num(0),
                      ParsedLimit(query, DefaultLimitStrict))
    IN  [i \in DOMAIN page |-> EnrichFetched(page[i], d)]

\* /channels: the rows after the country filter
ChannelsFetchByCountry(d, query) ==
    LET all == [i \in DOMAIN d.channels |-> EnrichFetched(d.channels[i], d)]
    IN  IF Truthy(query.country)
        THEN SelectSeq(all, LAMBDA c : CountryEqualsUpper(c.country, query.country))
        ELSE all

\* channel.alt_names.some(...) is reached for a row whose name does not match,
\* and throws when that row has no alt_names
ChannelsFetchThrows(d, query) ==
    /\ Truthy(query.search)
    /\ \E i \in DOMAIN ChannelsFetchByCountry(d, query) :
          /\ ~includes(toLowerCase(ChannelsFetchByCountry(d, query)[i].name),
                       toLowerCase(query.search))
          /\ ChannelsFetchByCountry(d, query)[i].alt_names = UndefinedList

\* /channels: the rows passing the country, text and category filters
ChannelsFetchMatches(d, query) ==
    LET byText == IF Truthy(query.search)
                  THEN SelectSeq(ChannelsFetchByCountry(d, query), LAMBDA c :
                          \/ includes(toLowerCase(c.name), toLowerCase(query.search))
                          \/ SomeIncludesLower(c.alt_names, toLowerCase(query.search)))
                  ELSE ChannelsFetchByCountry(d, query)
    IN  IF Truthy(query.category)
        THEN SelectSeq(byText, LAMBDA c :
                HasCategoryLower(c.categories, query.category))
        ELSE byText

\* filteredChannels.slice(0, parseInt(limit))
ChannelsFetchResults(d, query) ==
    slice(ChannelsFetchMatches(d, query), Num(0),
          ParsedLimit(query, DefaultLimitChannels))

\* what the handler does with the four parsed documents
ResponseAfterLoad(handler, d, query) ==
    IF handler = "strict"
    THEN SuccessResponse(StrictResults(d, query))
    ELSE IF ChannelsFetchThrows(d, query)
         THEN ErrorResponse(500, "Internal server error")
         ELSE SuccessResponse(ChannelsFetchResults(d, query))

(***************************************************************************)
(* /countries: the bundled handler and the fetching handler                *)
(* (api/countries.js)                                                      *)
(***************************************************************************)

\* channels.filter(c => c.country === country.code)
CountryChannels(channels, code) ==
    SelectSeq(channels, LAMBDA c : c.country = code)

\* includeChannels === 'true' || code === country.code
WithChannels(query, country) ==
    query.includeChannels = StrTrue \/ query.code = country.code

\* the row result.channels holds for a channel, its streams and logos by url
CountryChannel(channel, streams, logos) ==
    [id |-> channel.id,
     name |-> channel.name,
     alternativeNames |-> OrEmptyList(channel.alt_names),
     network |-> channel.network,
     categories |-> OrEmptyList(channel.categories),
     isNsfw |-> channel.is_nsfw,
     streams |-> [i \in DOMAIN StreamsOfChannel(streams, channel.id) |->
                    StreamsOfChannel(streams, channel.id)[i].url],
     logos |-> [i \in DOMAIN LogosOfChannel(logos, channel.id) |->
                    LogosOfChannel(logos, channel.id)[i].url]]

\* the callback of countries.map: withChannels tells whether result.channels
\* was set (channels is the empty list when it was not)
CountryEntry(b, country, query) ==
    [name |-> country.name,
     code |-> country.code,
     flag |-> country.flag,
     channelCount |-> Len(CountryChannels(b.channels, country.code)),
     withChannels |-> WithChannels(query, country),
     channels |-> IF WithChannels(query, country)
                  THEN [i \in DOMAIN CountryChannels(b.channels, country.code) |->
                           CountryChannel(CountryChannels(b.channels, country.code)[i],
                                          b.streams, b.logos)]
                  ELSE << >>]

\* if (code) countriesData = countriesData.filter(
\*     c => c.code.toLowerCase() === code.toLowerCase())
FilterByCode(entries, query) ==
    IF Truthy(query.code)
    THEN SelectSeq(entries, LAMBDA c : toLowerCase(c.code) = toLowerCase(query.code))
    ELSE entries

\* a list of entries left as it is
EveryEntry(entries) == entries

\* countriesData.filter(c => c.channelCount > 0)
WithSomeChannel(entries) == SelectSeq(entries, LAMBDA c : c.channelCount > 0)

\* countriesData after the map, the two filters and the sort
CountriesBundledData(b, query) ==
    SortByChannelCount(WithSomeChannel(FilterByCode(
        [i \in DOMAIN b.countries |-> CountryEntry(b, b.countries[i], query)],
        query)))

\* countriesData.reduce((sum, c) => sum + c.channelCount, 0)
RECURSIVE SumChannelCount(_)
SumChannelCount(entries) ==
    IF entries = <<>> THEN 0
    ELSE SumChannelCount(SubSeq(entries, 1, Len(entries) - 1))
         + entries[Len(entries)].channelCount

\* a code that is an array has no toLowerCase: the callback of the code filter
\* throws on the first entry
CountriesBundledThrows(b, query) ==
    query.code = ArrayValue /\ b.countries # <<>>

\* the whole bundled /countries handler; req.query is read outside the try block
CountriesBundledHandler(b, r) ==
    IF r.method = "OPTIONS" THEN Sent(EndResponse)
    ELSE IF r.queryThrows THEN Escaped
    ELSE IF CountriesBundledThrows(b, r.query)
         THEN Sent(ErrorResponse(500, "INTERNAL_ERROR"))
         ELSE Sent(CountedResponse(CountriesBundledData(b, r.query),
                                   SumChannelCount(CountriesBundledData(b, r.query))))

\* countryCounts[code] || 0 after the reduce: the channels with a truthy
\* country equal to the code
CountryCounts(channels, code) ==
    Len(SelectSeq(channels, LAMBDA c : Truthy(c.country) /\ c.country = code))

\* the place of x in a list kept by non-increasing channel_count
RECURSIVE InsertByFetchedCount(_, _)
InsertByFetchedCount(sorted, x) ==
    IF sorted = <<>> THEN <<x>>
    ELSE IF Head(sorted).channel_count >= x.channel_count
         THEN <<Head(sorted)>> \o InsertByFetchedCount(Tail(sorted), x)
         ELSE <<x>> \o sorted

\* .sort((a, b) => b.channel_count - a.channel_count)
RECURSIVE SortByFetchedCount(_)
SortByFetchedCount(list) ==
    IF list = <<>> THEN <<>>
    ELSE InsertByFetchedCount(SortByFetchedCount(SubSeq(list, 1, Len(list) - 1)),
                              list[Len(list)])

\* countries.filter(country => countryCounts[country.code]).map(...).sort(...)
CountriesWithCounts(d) ==
    LET counted == SelectSeq(d.countries,
                             LAMBDA c : CountryCounts(d.channels, c.code) # 0)
    IN  SortByFetchedCount(
            [i \in DOMAIN counted |->
                [code |-> counted[i].code,
                 name |-> counted[i].name,
                 flag |-> counted[i].flag,
                 channel_count |-> CountryCounts(d.channels, counted[i].code)]])

(***************************************************************************)
(* The module-level arrays and the in-place sorts of the bundled handlers  *)
(***************************************************************************)

\* an advanced search that calls the sort on the channels array itself
SortsChannels(handler) == IF handler = "advanced" THEN "channels" ELSE "own"

\* the array a handler's sort reorders: "own" is an array the request has
\* built, "channels" the module-level array.  `results` comes from
\* channels.map (search.js 30), countriesData from countries.map and filter
\* (countries.js 23, 75), the category list from Array.from (categories.js 44);
\* the bundled /channels and the index sort nothing
SortedArray(handler) == "own"

\* whether the run of the handler reaches its sort
ReachesSort(b, r) ==
    /\ r.method # "OPTIONS"
    /\ ~r.queryThrows
    /\ r.handler \in {"advanced", "countriesBundled", "categories"}
    /\ r.handler = "advanced" => ~AdvancedThrows(r.query)
    /\ r.handler = "countriesBundled" => ~CountriesBundledThrows(b, r.query)

\* the channels array once a sort by stream count has reordered it
ChannelsByStreamCount(b) ==
    LET sorted == SortByStreamCount(EnrichAllAdvanced(b))
    IN  [i \in DOMAIN sorted |->
            b.channels[CHOOSE j \in DOMAIN b.channels :
                           b.channels[j].id = sorted[i].id]]

\* the module-level arrays after the run of a bundled handler: map, filter and
\* Array.from return new arrays, sort reorders the array it is called on
BundleAfter(b, r) ==
    IF ReachesSort(b, r) /\ SortedArray(r.handler) = "channels"
    THEN [b EXCEPT !.channels = ChannelsByStreamCount(b)]
    ELSE b

(***************************************************************************)
(* State                                                                   *)
(***************************************************************************)

VARIABLES
    bundle,     \* the module-level data of the bundled handlers (require(...))
    req,        \* the request being handled
    pc,         \* "idle", "fetching" (the handler awaits a fetch) or "done"
    fetch,      \* per document: "idle", "pending", "resolved" or "rejected"
    bodyOk,     \* per resolved document: whether response.json() parses it
    docs,       \* the parsed documents of the request
    started,    \* per document: how many times the request called fetch for it
    resp,       \* the responses sent for the request, in order
    escaped,    \* whether an exception left the handler
    walk        \* a client paging through the advanced search

vars == <<bundle, req, pc, fetch, bodyOk, docs, started, resp, escaped, walk>>

DocNames == {"channels", "streams", "logos", "countries"}

\* the order in which /channels fetches the documents
DocOrder == <<"channels", "streams", "logos", "countries">>

NoDocs == [channels |-> <<>>, streams |-> <<>>, logos |-> <<>>, countries |-> <<>>]

NoWalk == [active |-> FALSE, query |-> NoQuery, cursor |-> 0, acc |-> <<>>,
           totals |-> {}]

NoRequest == [handler |-> "none", method |-> "GET", queryThrows |-> FALSE,
              query |-> NoQuery]

\* the bundled data of the runs that vary the requests and the fetched documents
DefaultBundle ==
    [channels |-> ChannelPool, streams |-> StreamPool,
     logos |-> SubSeq(LogoPool, 1, 2), countries |-> CountryPool]

\* the bundled data of the runs that vary the bundle
Bundles ==
    [channels : ListsOf(ChannelPool, MaxChannels),
     streams : ListsOf(StreamPool, MaxStreams),
     logos : {SubSeq(LogoPool, 1, 2)},
     countries : {CountryPool}]

InitRequest ==
    /\ req = NoRequest
    /\ pc = "idle"
    /\ fetch = [d \in DocNames |-> "idle"]
    /\ bodyOk = [d \in DocNames |-> FALSE]
    /\ docs = NoDocs
    /\ started = [d \in DocNames |-> 0]
    /\ resp = <<>>
    /\ escaped = FALSE
    /\ walk = NoWalk

Init == bundle = DefaultBundle /\ InitRequest

InitBundled == bundle \in Bundles /\ InitRequest

\* the longest channels dataset of the /categories runs
MaxCategoryChannels == 6

\* the ids of the generated channel rows, by position
ChannelIds == <<"c1", "c2", "c3", "c4", "c5", "c6", "c7", "c8">>

\* a channel row with the given country and categories
ChannelRow(i, country, categories) ==
    [id |-> ChannelIds[i], name |-> <<"C">>, alt_names |-> << >>,
     network |-> Undefined, owners |-> << >>, country |-> country,
     categories |-> categories, is_nsfw |-> FALSE]

\* what a channel row may carry as categories: nothing, one, or two in either order
CategoryChoices ==
    {UndefinedList, <<StrNews>>, <<StrSport>>, <<StrSport, StrNews>>}

\* the channels dataset whose i-th row carries the categories g[i]
CategoryChannels(g) == [i \in DOMAIN g |-> ChannelRow(i, StrUS, g[i])]

\* the /categories runs: every choice of categories for up to
\* MaxCategoryChannels rows
InitCategories ==
    /\ \E k \in 0..MaxCategoryChannels :
        \E g \in [1..k -> CategoryChoices] :
            bundle = [channels |-> CategoryChannels(g), streams |-> << >>,
                      logos |-> << >>, countries |-> CountryPool]
    /\ InitRequest

\* the longest channels and countries datasets of the /countries runs
MaxCountryChannels == 3
MaxCountries == 3

StrUK == <<"U", "K">>

\* country rows: the one of CountryPool, one more with channels, one without
CountryRows ==
    CountryPool \o
    << [code |-> StrUK, name |-> "United Kingdom", flag |-> "flag-uk"],
       [code |-> <<"F", "R">>, name |-> "France", flag |-> "flag-fr"] >>

\* what a channel row may carry as country
CountryChoices == {StrUS, StrUK, StrUs, Undefined}

\* the channels datasets of the /countries runs
CountryChannelLists ==
    UNION { { [i \in 1..k |-> ChannelRow(i, g[i], <<StrNews>>)] :
                g \in [1..k -> CountryChoices] } :
            k \in 0..MaxCountryChannels }

\* the countries datasets of the /countries runs
CountryLists == ListsOf(CountryRows, MaxCountries)

\* the bundled data of the /countries runs
CountryBundles ==
    [channels : CountryChannelLists, streams : {StreamPool},
     logos : {SubSeq(LogoPool, 1, 2)}, countries : CountryLists]

InitCountries == bundle \in CountryBundles \cup {DefaultBundle} /\ InitRequest

(***************************************************************************)
(* The requests of the model                                               *)
(***************************************************************************)

\* query strings of the advanced search that vary the filters
FilterQueries ==
    { [NoQuery EXCEPT !.q = q, !.country = c, !.category = k, !.nsfw = n,
                      !.hasStreams = h] :
        q \in {Undefined, <<>>, <<"B">>, ArrayValue},
        c \in {Undefined, StrUs, StrUS},
        k \in {Undefined, <<"N">>},
        n \in {Undefined, StrTrue, StrFalse},
        h \in {Undefined, StrTrue, StrFalse} }

\* query strings of the advanced search that vary the page
PagingQueries ==
    { [NoQuery EXCEPT !.limit = l, !.offset = o, !.hasStreams = h] :
        l \in {Undefined, <<"0">>, <<"1">>, <<"2">>, <<"-", "1">>, <<"x">>},
        o \in {Undefined, <<"0">>, <<"1">>, <<"2">>, <<"-", "1">>, <<"9">>, <<"x">>},
        h \in {Undefined, StrTrue} }

AdvancedQueries == FilterQueries \cup PagingQueries

\* the filters a paging client keeps fixed, and its page sizes
WalkQueries ==
    { [NoQuery EXCEPT !.q = q, !.hasStreams = h, !.limit = l] :
        q \in {Undefined, <<"B">>}, h \in {Undefined, StrTrue},
        l \in {<<"1">>, <<"2">>} }

ChannelsBundledQueries ==
    { [NoQuery EXCEPT !.search = s, !.country = c] :
        s \in {Undefined, <<"B">>}, c \in {Undefined, StrUs, StrUS} }

\* query strings of the strict search: q and country vary, then one with a
\* category and one with a limit
StrictQueries ==
    { [NoQuery EXCEPT !.q = q, !.country = c] :
        q \in {Undefined, <<>>, <<"B">>}, c \in {Undefined, StrUs, StrUS} }
    \cup { [NoQuery EXCEPT !.q = <<"B">>, !.category = <<"N">>],
           [NoQuery EXCEPT !.q = <<"B">>, !.limit = <<"1">>] }

\* query strings of the fetching /channels: each parameter alone, and country
\* with search
ChannelsFetchQueries ==
    { [NoQuery EXCEPT !.search = s, !.country = c] :
        s \in {Undefined, <<"B">>}, c \in {Undefined, StrUs} }
    \cup { [NoQuery EXCEPT !.category = <<"N">>],
           [NoQuery EXCEPT !.limit = <<"1">>] }

\* query strings of the bundled /countries: no code, the empty code, a code in
\* three casings, a second code, a code given twice; with and without
\* includeChannels=true
CountriesQueries ==
    { [NoQuery EXCEPT !.code = c, !.includeChannels = i] :
        c \in {Undefined, <<>>, StrUS, StrUs, <<"U", "s">>, StrUK, ArrayValue},
        i \in {Undefined, StrTrue} }

\* the requests to a handler: a preflight, a request whose req.query cannot be
\* read, and the GET requests with the handler's query strings
RequestsOf(handler, queries) ==
    { [handler |-> handler, method |-> "OPTIONS", queryThrows |-> FALSE,
       query |-> NoQuery],
      [handler |-> handler, method |-> "GET", queryThrows |-> TRUE,
       query |-> NoQuery] }
    \cup { [handler |-> handler, method |-> "GET", queryThrows |-> FALSE,
            query |-> q] : q \in queries }

(***************************************************************************)
(* The bundled handlers: one action each, the handler runs to its response *)
(***************************************************************************)

\* a handler that never awaits: the request arrives and is answered
Answer(r, outcome) ==
    /\ req' = r
    /\ pc' = "done"
    /\ resp' = outcome.resp
    /\ escaped' = outcome.escaped
    /\ fetch' = [d \in DocNames |-> "idle"]
    /\ bodyOk' = [d \in DocNames |-> FALSE]
    /\ docs' = NoDocs
    /\ started' = [d \in DocNames |-> 0]
    /\ bundle' = BundleAfter(bundle, r)

AdvancedSearch ==
    \E r \in RequestsOf("advanced", AdvancedQueries) :
        /\ pc = "idle"
        /\ Answer(r, AdvancedHandler(bundle, r))
        /\ walk' = NoWalk

\* the first page of a paging client: offset 0
WalkStart ==
    \E q \in WalkQueries :
        LET r == [handler |-> "advanced", method |-> "GET", queryThrows |-> FALSE,
                  query |-> [q EXCEPT !.offset = <<"0">>]]
            out == AdvancedHandler(bundle, r)
        IN  /\ pc = "idle"
            /\ Answer(r, out)
            /\ walk' = [active |-> TRUE, query |-> q,
                        cursor |-> parseIntString(q.limit).n,
                        acc |-> out.resp[1].data,
                        totals |-> {out.resp[1].total}]

\* the next page: the same query, the offset advanced by the limit
WalkNext ==
    /\ pc = "done"
    /\ walk.active
    /\ resp # <<>> /\ resp[1].hasMore
    /\ LET r == [handler |-> "advanced", method |-> "GET", queryThrows |-> FALSE,
                 query |-> [walk.query EXCEPT !.offset = ToText(walk.cursor)]]
           out == AdvancedHandler(bundle, r)
       IN  /\ Answer(r, out)
           /\ walk' = [walk EXCEPT
                         !.cursor = @ + parseIntString(walk.query.limit).n,
                         !.acc = @ \o out.resp[1].data,
                         !.totals = @ \cup {out.resp[1].total}]

ChannelsBundled ==
    \E r \in RequestsOf("channelsBundled", ChannelsBundledQueries) :
        /\ pc = "idle"
        /\ Answer(r, ChannelsBundledHandler(bundle, r))
        /\ walk' = NoWalk

Index ==
    \E r \in RequestsOf("index", {NoQuery}) :
        /\ pc = "idle"
        /\ Answer(r, IndexHandler(r))
        /\ walk' = NoWalk

Categories ==
    \E r \in RequestsOf("categories", {NoQuery}) :
        /\ pc = "idle"
        /\ Answer(r, CategoriesHandler(bundle, r))
        /\ walk' = NoWalk

CountriesBundled ==
    \E r \in RequestsOf("countriesBundled", CountriesQueries) :
        /\ pc = "idle"
        /\ Answer(r, CountriesBundledHandler(bundle, r))
        /\ walk' = NoWalk

(***************************************************************************)
(* The fetching handlers: the request, then one action per fetch that      *)
(* settles                                                                 *)
(***************************************************************************)

\* the documents the remote host may serve
RemoteDocs ==
    [channels |-> ListsOf(ChannelPool, MaxChannels),
     streams |-> ListsOf(StreamPool, MaxStreams),
     logos |-> ListsOf(LogoPool, MaxLogos),
     countries |-> {CountryPool}]

\* the request is over with one response and no fetch
AnswerAtOnce(r, response) ==
    /\ req' = r
    /\ pc' = "done"
    /\ resp' = <<response>>
    /\ fetch' = [d \in DocNames |-> "idle"]
    /\ started' = [d \in DocNames |-> 0]

\* the request calls fetch for the documents of `ds` and awaits
StartFetching(r, ds) ==
    /\ req' = r
    /\ pc' = "fetching"
    /\ resp' = <<>>
    /\ fetch' = [d \in DocNames |-> IF d \in ds THEN "pending" ELSE "idle"]
    /\ started' = [d \in DocNames |-> IF d \in ds THEN 1 ELSE 0]

\* a check of q that lets the empty string through
MissingQueryUndefinedOnly(q) == q = Undefined

\* if (!q): q is undefined or the empty string
MissingQuery(q) == ~Truthy(q)

\* the strict search up to its first await: preflight, the reading of req.query
\* (inside the try block), the check of q, then Promise.all of the four fetches
StrictSearchRequest ==
    \E r \in RequestsOf("strict", StrictQueries) :
        /\ pc = "idle"
        /\ IF r.method = "OPTIONS" THEN AnswerAtOnce(r, EndResponse)
           ELSE IF r.queryThrows
                THEN AnswerAtOnce(r, ErrorResponse(500, "Internal server error"))
           ELSE IF MissingQuery(r.query.q)
                THEN AnswerAtOnce(r, ErrorResponse(400, "Search query (q) is required"))
           ELSE StartFetching(r, DocNames)
        /\ bodyOk' = [d \in DocNames |-> FALSE]
        /\ docs' = NoDocs
        /\ escaped' = FALSE
        /\ walk' = NoWalk
        /\ UNCHANGED bundle

\* /channels up to its first await: preflight, the reading of req.query (inside
\* the try block), then the fetch of channels.json
ChannelsFetchRequest ==
    \E r \in RequestsOf("channelsFetch", ChannelsFetchQueries) :
        /\ pc = "idle"
        /\ IF r.method = "OPTIONS" THEN AnswerAtOnce(r, EndResponse)
           ELSE IF r.queryThrows
                THEN AnswerAtOnce(r, ErrorResponse(500, "Internal server error"))
           ELSE StartFetching(r, {"channels"})
        /\ bodyOk' = [d \in DocNames |-> FALSE]
        /\ docs' = NoDocs
        /\ escaped' = FALSE
        /\ walk' = NoWalk
        /\ UNCHANGED bundle

\* a load that looks at channels.json alone
AllLoadedChannelsOnly(f, ok) == f["channels"] = "resolved" /\ ok["channels"]

\* every document has been fetched and parsed
AllLoaded(f, ok) == \A d \in DocNames : f[d] = "resolved" /\ ok[d]

\* the document /channels fetches after d, or "none"
NextDoc(d) ==
    IF \E i \in 1..(Len(DocOrder) - 1) : DocOrder[i] = d
    THEN DocOrder[1 + CHOOSE i \in 1..(Len(DocOrder) - 1) : DocOrder[i] = d]
    ELSE "none"

\* a fetch promise rejects: the await throws, the catch block answers 500
FetchRejects ==
    \E d \in DocNames :
        /\ pc = "fetching"
        /\ fetch[d] = "pending"
        /\ fetch' = [fetch EXCEPT ![d] = "rejected"]
        /\ pc' = "done"
        /\ resp' = Append(resp, ErrorResponse(500, "Internal server error"))
        /\ UNCHANGED <<bundle, req, bodyOk, docs, started, escaped, walk>>

\* what the strict search does once Promise.all has resolved: the four
\* response.json() calls, then the search
StrictAfterAll(f, ok, d, query) ==
    IF AllLoaded(f, ok)
    THEN ResponseAfterLoad("strict", d, query)
    ELSE ErrorResponse(500, "Internal server error")

\* a fetch of the strict search resolves, with a body that parses (parsed =
\* TRUE, the document is `doc`) or does not; the handler goes on when the
\* last of the four has resolved
StrictFetchResolves ==
    \E d \in DocNames, parsed \in BOOLEAN :
      \E doc \in (IF parsed THEN RemoteDocs[d] ELSE {<<>>}) :
        /\ pc = "fetching"
        /\ req.handler = "strict"
        /\ fetch[d] = "pending"
        /\ fetch' = [fetch EXCEPT ![d] = "resolved"]
        /\ bodyOk' = [bodyOk EXCEPT ![d] = parsed]
        /\ docs' = [docs EXCEPT ![d] = doc]
        /\ IF \A e \in DocNames : fetch'[e] = "resolved"
           THEN /\ pc' = "done"
                /\ resp' = Append(resp, StrictAfterAll(fetch', bodyOk', docs', req.query))
           ELSE UNCHANGED <<pc, resp>>
        /\ UNCHANGED <<bundle, req, started, escaped, walk>>

\* the fetch /channels awaits resolves: an unparsable body throws in
\* response.json(); otherwise the next document is fetched, and after the
\* last one the rows are built and filtered
ChannelsFetchResolves ==
    \E d \in DocNames, parsed \in BOOLEAN :
      \E doc \in (IF parsed THEN RemoteDocs[d] ELSE {<<>>}) :
        /\ pc = "fetching"
        /\ req.handler = "channelsFetch"
        /\ fetch[d] = "pending"
        /\ bodyOk' = [bodyOk EXCEPT ![d] = parsed]
        /\ docs' = [docs EXCEPT ![d] = doc]
        /\ IF ~parsed
           THEN /\ fetch' = [fetch EXCEPT ![d] = "resolved"]
                /\ pc' = "done"
                /\ resp' = Append(resp, ErrorResponse(500, "Internal server error"))
                /\ UNCHANGED started
           ELSE IF NextDoc(d) # "none"
           THEN /\ fetch' = [fetch EXCEPT ![d] = "resolved", ![NextDoc(d)] = "pending"]
                /\ started' = [started EXCEPT ![NextDoc(d)] = @ + 1]
                /\ UNCHANGED <<pc, resp>>
           ELSE /\ fetch' = [fetch EXCEPT ![d] = "resolved"]
                /\ pc' = "done"
                /\ resp' = Append(resp, ResponseAfterLoad("channelsFetch", docs', req.query))
                /\ UNCHANGED started
        /\ UNCHANGED <<bundle, req, escaped, walk>>

\* the documents the remote host may serve to the fetching /countries
RemoteCountryDocs ==
    [channels |-> CountryChannelLists, countries |-> CountryLists]

\* the fetching /countries up to its first await: preflight, then the fetch of
\* channels.json; the handler reads no query parameter
CountriesFetchRequest ==
    \E r \in RequestsOf("countriesFetch", {NoQuery}) :
        /\ pc = "idle"
        /\ IF r.method = "OPTIONS" THEN AnswerAtOnce(r, EndResponse)
           ELSE StartFetching(r, {"channels"})
        /\ bodyOk' = [d \in DocNames |-> FALSE]
        /\ docs' = NoDocs
        /\ escaped' = FALSE
        /\ walk' = NoWalk
        /\ UNCHANGED bundle

\* the fetching /countries is a module of its own that requires no data file:
\* its runs need no more than one bundle
CountriesFetchAlone == bundle = DefaultBundle /\ CountriesFetchRequest

\* the fetch /countries awaits resolves: an unparsable body throws in
\* response.json(); after channels.json the handler fetches countries.json,
\* after countries.json it counts and answers
CountriesFetchResolves ==
    \E d \in {"channels", "countries"}, parsed \in BOOLEAN :
      \E doc \in (IF parsed THEN RemoteCountryDocs[d] ELSE {<<>>}) :
        /\ pc = "fetching"
        /\ req.handler = "countriesFetch"
        /\ fetch[d] = "pending"
        /\ bodyOk' = [bodyOk EXCEPT ![d] = parsed]
        /\ docs' = [docs EXCEPT ![d] = doc]
        /\ IF ~parsed
           THEN /\ fetch' = [fetch EXCEPT ![d] = "resolved"]
                /\ pc' = "done"
                /\ resp' = Append(resp, ErrorResponse(500, "Internal server error"))
                /\ UNCHANGED started
           ELSE IF d = "channels"
           THEN /\ fetch' = [fetch EXCEPT ![d] = "resolved", !["countries"] = "pending"]
                /\ started' = [started EXCEPT !["countries"] = @ + 1]
                /\ UNCHANGED <<pc, resp>>
           ELSE /\ fetch' = [fetch EXCEPT ![d] = "resolved"]
                /\ pc' = "done"
                /\ resp' = Append(resp, SuccessResponse(CountriesWithCounts(docs')))
                /\ UNCHANGED started
        /\ UNCHANGED <<bundle, req, escaped, walk>>

\* the request is over; the process serves the next one.  Nothing of a request
\* outlives it: the handlers keep no state but the bundled data
Finish ==
    /\ pc = "done"
    /\ req' = NoRequest
    /\ pc' = "idle"
    /\ fetch' = [d \in DocNames |-> "idle"]
    /\ bodyOk' = [d \in DocNames |-> FALSE]
    /\ docs' = NoDocs
    /\ started' = [d \in DocNames |-> 0]
    /\ resp' = <<>>
    /\ escaped' = FALSE
    /\ walk' = NoWalk
    /\ UNCHANGED bundle

(***************************************************************************)
(* Specifications                                                          *)
(***************************************************************************)

NextBundled ==
    \/ AdvancedSearch
    \/ WalkStart
    \/ WalkNext
    \/ ChannelsBundled
    \/ CountriesBundled
    \/ Categories
    \/ Index
    \/ Finish

\* /categories alone
NextCategories ==
    \/ Categories
    \/ Finish

\* the two /countries handlers
NextCountries ==
    \/ CountriesBundled
    \/ CountriesFetchAlone
    \/ FetchRejects
    \/ CountriesFetchResolves
    \/ Finish

Next ==
    \/ AdvancedSearch
    \/ WalkStart
    \/ WalkNext
    \/ ChannelsBundled
    \/ CountriesBundled
    \/ Categories
    \/ Index
    \/ StrictSearchRequest
    \/ ChannelsFetchRequest
    \/ CountriesFetchRequest
    \/ FetchRejects
    \/ StrictFetchResolves
    \/ ChannelsFetchResolves
    \/ CountriesFetchResolves
    \/ Finish

\* every handler, the bundled data fixed, the fetched documents varying
Spec == Init /\ [][Next]_vars

\* the bundled handlers, the bundled data varying
SpecBundled == InitBundled /\ [][NextBundled]_vars

\* the /countries handlers, the channels and countries datasets varying
SpecCountries == InitCountries /\ [][NextCountries]_vars

\* /categories, the channels dataset long enough for the cut at 5
SpecCategories == InitCategories /\ [][NextCategories]_vars

(***************************************************************************)
(* Properties                                                              *)
(***************************************************************************)

FetchingHandlers == {"strict", "channelsFetch"}

InternalError == ErrorResponse(500, "Internal server error")

\* a fetch of the request has failed: its promise rejected, or its body did
\* not parse
SomeFetchFailed ==
    \E d \in DocNames :
        fetch[d] = "rejected" \/ (fetch[d] = "resolved" /\ ~bodyOk[d])

\* C1: in the strict search and the fetching /channels the load is all or
\* nothing: a success response is sent only when all four fetches have
\* resolved and parsed; once a fetch has failed the request ends with the
\* single response 500 "Internal server error", which carries no data; and no
\* document is fetched twice in a request.
C1_AllOrNothing ==
    req.handler \in FetchingHandlers =>
        /\ \A i \in DOMAIN resp :
              resp[i].kind = "success" =>
                  \A d \in DocNames : fetch[d] = "resolved" /\ bodyOk[d]
        /\ (pc = "done" /\ SomeFetchFailed) => resp = <<InternalError>>
        /\ pc = "fetching" => resp = <<>>
        /\ \A d \in DocNames : started[d] <= 1

\* C1 witness: the strict search has ended with 500 after its logos fetch
\* was rejected while the channels had already arrived
C1_Witness ==
    /\ req.handler = "strict"
    /\ pc = "done"
    /\ fetch["logos"] = "rejected"
    /\ fetch["channels"] = "resolved" /\ bodyOk["channels"] /\ docs.channels # <<>>
    /\ resp = <<InternalError>>

\* C2: every request to every handler ends with exactly one response and no
\* exception leaves the handler, whatever the stage that raised it.
C2_ExactlyOneResponse ==
    pc = "done" => Len(resp) = 1 /\ ~escaped

BadRequest == ErrorResponse(400, "Search query (q) is required")

\* C3: a request to the strict search, other than a preflight, whose q is
\* missing or empty is answered 400 "Search query (q) is required" with no
\* fetch started; and no handler answers 400 in any other situation.
C3_BadRequestOnlyForMissingQuery ==
    /\ \A i \in DOMAIN resp :
          resp[i].status = 400 =>
              /\ req.handler = "strict"
              /\ req.method # "OPTIONS"
              /\ ~req.queryThrows
              /\ req.query.q \in {Undefined, <<>>}
              /\ resp = <<BadRequest>>
    /\ ( /\ req.handler = "strict"
         /\ req.method # "OPTIONS"
         /\ ~req.queryThrows
         /\ req.query.q \in {Undefined, <<>>} )
       => /\ pc = "done"
          /\ resp = <<BadRequest>>
          /\ \A d \in DocNames : started[d] = 0 /\ fetch[d] = "idle"

\* C3 witness: the strict search has answered 400 to an empty q given with a
\* country
C3_Witness ==
    /\ req.handler = "strict"
    /\ req.query.q = <<>>
    /\ req.query.country # Undefined
    /\ resp = <<BadRequest>>

\* the ids of a list of rows
Ids(rows) == [i \in DOMAIN rows |-> rows[i].id]

\* the request has ended with a success response
Succeeded == pc = "done" /\ Len(resp) = 1 /\ resp[1].kind = "success"

\* equality of a stored country and a supplied code, both lower-cased
SameCountry(stored, code) ==
    stored # Undefined /\ toLowerCase(stored) = toLowerCase(code)

WithoutCountry(query) == [query EXCEPT !.country = Undefined]

\* the rows a handler returns when the country filter is the case-insensitive
\* equality and the other filters, the order and the page are the handler's own
ExpectedByCountry ==
    CASE req.handler = "advanced" ->
           PageOf(SortByStreamCount(
                      SelectSeq(ApplyFilters(EnrichAllAdvanced(bundle),
                                             WithoutCountry(req.query)),
                                LAMBDA c : SameCountry(c.country, req.query.country))),
                  ParsedOffsetAdvanced(req.query), ParsedLimitAdvanced(req.query))
      [] req.handler = "channelsBundled" ->
           SelectSeq(ChannelsBundledResults(bundle, WithoutCountry(req.query)),
                     LAMBDA c : SameCountry(c.country, req.query.country))
      [] req.handler = "strict" ->
           slice(SelectSeq(StrictMatches(docs, WithoutCountry(req.query)),
                           LAMBDA c : SameCountry(c.country, req.query.country)),
                 Num(0), ParsedLimit(req.query, DefaultLimitStrict))
      [] req.handler = "channelsFetch" ->
           slice(SelectSeq(ChannelsFetchMatches(docs, WithoutCountry(req.query)),
                           LAMBDA c : SameCountry(c.country, req.query.country)),
                 Num(0), ParsedLimit(req.query, DefaultLimitChannels))

\* C4: in every handler with a country filter, the channels returned for a
\* supplied country code are exactly the channels passing the other filters
\* whose country equals the code when both are compared without regard to
\* letter case.
C4_CountryCaseInsensitive ==
    ( /\ Succeeded
      /\ req.handler \in {"advanced", "channelsBundled", "strict", "channelsFetch"}
      /\ Truthy(req.query.country) )
    => Ids(resp[1].data) = Ids(ExpectedByCountry)

\* the logo the claim describes, stated over the positions of the list
DescribedLogo(logos, id) ==
    LET mine == {i \in DOMAIN logos : logos[i].channel = id}
        plain == {i \in mine : logos[i].feed \in {NoKey, ""}}
        least(S) == CHOOSE i \in S : \A j \in S : i <= j
    IN  IF plain # {} THEN logos[least(plain)].url
        ELSE IF mine # {} THEN logos[least(mine)].url
        ELSE Null

\* C8: in the join of the fetching handlers, the logo of every returned
\* channel is the url of the first logo of the channel that has no feed, when
\* there is one (also behind a logo with a feed), else of the first logo of
\* the channel, else null.
C8_LogoPreference ==
    (Succeeded /\ req.handler \in FetchingHandlers) =>
        \A i \in DOMAIN resp[1].data :
            resp[1].data[i].logo = DescribedLogo(docs.logos, resp[1].data[i].id)

\* C8 witness: a channel was returned with its logo without feed although a
\* logo of the channel with a feed comes first in the document
C8_Witness ==
    /\ Succeeded
    /\ req.handler \in FetchingHandlers
    /\ Len(docs.logos) >= 2
    /\ docs.logos[1].channel = "c1" /\ docs.logos[1].feed = "SD"
    /\ docs.logos[2].channel = "c1" /\ docs.logos[2].feed \in {NoKey, ""}
    /\ \E i \in DOMAIN resp[1].data :
          resp[1].data[i].id = "c1" /\ resp[1].data[i].logo = docs.logos[2].url

\* the request is an answered GET of the advanced search
AdvancedSucceeded == Succeeded /\ req.handler = "advanced"

Min(a, b) == IF a < b THEN a ELSE b

\* the page size of the paging client
WalkLimit == parseIntString(walk.query.limit).n

\* C5: for a fixed query and a fixed page size of at least 1, the pages the
\* advanced search returns for the offsets 0, limit, 2*limit, ... are the
\* windows [offset, offset + limit) of the filtered and sorted list; put one
\* behind the other they are that list up to the last offset asked, so the
\* whole list once hasMore is false, and every page reports the same total.
C5_PagesReconstructList ==
    walk.active =>
        LET full == AdvancedResults(bundle, walk.query)
            offset == walk.cursor - WalkLimit
        IN  /\ AdvancedSucceeded
            /\ resp[1].data = SubSeq(full, offset + 1, Min(offset + WalkLimit, Len(full)))
            /\ walk.acc = SubSeq(full, 1, Min(walk.cursor, Len(full)))
            /\ walk.totals = {Len(full)}
            /\ ~resp[1].hasMore => walk.acc = full

\* C5 witness: the client has fetched a second page and that page ended the
\* list
C5_Witness ==
    /\ walk.active
    /\ walk.cursor = 2 * WalkLimit
    /\ resp[1].data # <<>>
    /\ ~resp[1].hasMore
    /\ Len(walk.acc) >= 2

\* C6: in every success response of the advanced search, total is the number
\* of channels left by the filters and hasMore is true exactly when the
\* reported offset plus the reported limit is smaller than total (the
\* comparison is false when one of them is NaN).
C6_HasMore ==
    AdvancedSucceeded =>
        /\ resp[1].total = Len(ApplyFilters(EnrichAllAdvanced(bundle), req.query))
        /\ resp[1].hasMore <=>
              /\ ~resp[1].limit.nan
              /\ ~resp[1].offset.nan
              /\ resp[1].offset.n + resp[1].limit.n < resp[1].total

\* C6 witness: a response with limit 0 and an empty page that reports hasMore
C6_Witness ==
    /\ AdvancedSucceeded
    /\ resp[1].limit = Num(0)
    /\ resp[1].data = <<>>
    /\ resp[1].hasMore

\* the parameter is given and parseInt makes NaN of it
NonNumeric(param) == param # Undefined /\ parseIntString(param).nan

\* C7: a limit or offset that is not a number is replaced by the documented
\* default, so the request returns the page of the request without that
\* parameter (advanced search: limit 50, offset 0).
C7_NonNumericDefaults ==
    AdvancedSucceeded =>
        /\ NonNumeric(req.query.limit) =>
              /\ resp[1].limit = Num(DefaultLimitAdvanced)
              /\ resp[1].data = AdvancedTry(bundle, [req.query EXCEPT !.limit = Undefined]).data
        /\ NonNumeric(req.query.offset) =>
              /\ resp[1].offset = Num(DefaultOffsetAdvanced)
              /\ resp[1].data = AdvancedTry(bundle, [req.query EXCEPT !.offset = Undefined]).data

\* the urls of the streams whose channel key or feed key is the id, in the
\* order of the list
StreamUrlsByChannelOrFeed(streams, id) ==
    LET mine == SelectSeq(streams, LAMBDA s : s.channel = id \/ s.feed = id)
    IN  [i \in DOMAIN mine |-> mine[i].url]

\* the streams document a handler joins: the bundle's, or the fetched one
JoinedStreams ==
    IF req.handler \in FetchingHandlers THEN docs.streams ELSE bundle.streams

\* C9: in every handler that joins streams to channels, the streams of a
\* returned channel are exactly the streams whose channel key or feed key
\* equals the channel id, in the order of the dataset.
C9_StreamsByChannelOrFeed ==
    ( /\ Succeeded
      /\ req.handler \in {"advanced", "channelsBundled", "strict", "channelsFetch"} )
    => \A i \in DOMAIN resp[1].data :
          resp[1].data[i].streams
              = StreamUrlsByChannelOrFeed(JoinedStreams, resp[1].data[i].id)

\* the k-th filter of the advanced search
FilterAt(k, results, query) ==
    CASE k = 1 -> FilterSearch(results, query)
      [] k = 2 -> FilterCountry(results, query)
      [] k = 3 -> FilterCategory(results, query)
      [] k = 4 -> FilterNsfw(results, query)
      [] k = 5 -> FilterHasStreams(results, query)

\* the filters applied in the order `order`
RECURSIVE ApplyInOrder(_, _, _)
ApplyInOrder(order, results, query) ==
    IF order = <<>> THEN results
    ELSE ApplyInOrder(Tail(order), FilterAt(Head(order), results, query), query)

\* the filters whose parameter the request supplies
SuppliedFilters(query) ==
    {k \in 1..5 :
        \/ k = 1 /\ Truthy(query.q)
        \/ k = 2 /\ Truthy(query.country)
        \/ k = 3 /\ Truthy(query.category)
        \/ k = 4 /\ query.nsfw # Undefined
        \/ k = 5 /\ query.hasStreams = StrTrue}

\* every order of every set of filters
FilterOrders ==
    [S \in SUBSET (1..5) |->
        {o \in [1..Cardinality(S) -> S] :
            \A i, j \in 1..Cardinality(S) : i # j => o[i] # o[j]}]

\* the row satisfies each predicate whose parameter is supplied
Satisfies(c, query) ==
    /\ Truthy(query.q) => MatchesSearch(c, toLowerCase(query.q))
    /\ Truthy(query.country) => SameCountry(c.country, query.country)
    /\ Truthy(query.category) =>
          \E i \in DOMAIN c.categories :
              toLowerCase(c.categories[i]) = toLowerCase(query.category)
    /\ query.nsfw # Undefined => (c.isNsfw <=> query.nsfw = StrTrue)
    /\ query.hasStreams = StrTrue => c.streamCount > 0

Range(list) == {list[i] : i \in DOMAIN list}

\* no filter parameter is supplied (hasStreams other than 'true' asks nothing)
NoFilterSupplied(query) ==
    /\ ~Truthy(query.q)
    /\ ~Truthy(query.country)
    /\ ~Truthy(query.category)
    /\ query.nsfw = Undefined
    /\ query.hasStreams # StrTrue

\* C10: the filters of the advanced search are conjunctive and commutative:
\* the supplied filters applied in any order leave the channels that satisfy
\* every supplied predicate, the response counts and returns exactly those channels, and a
\* request that supplies no filter parameter keeps every channel.
C10_FiltersConjunctive ==
    AdvancedSucceeded =>
        \A all \in {EnrichAllAdvanced(bundle)} :
          \A passing \in {{c \in Range(all) : Satisfies(c, req.query)}} :
            /\ \A order \in FilterOrders[SuppliedFilters(req.query)] :
                  Range(ApplyInOrder(order, all, req.query)) = passing
            /\ resp[1].total = Cardinality(passing)
            /\ Range(resp[1].data) \subseteq passing
            /\ resp[1].limit = Num(DefaultLimitAdvanced) /\ resp[1].offset = Num(0)
                  => Range(resp[1].data) = passing
            /\ NoFilterSupplied(req.query) => resp[1].total = Len(bundle.channels)

\* C10 witness: a request with q, country, category and nsfw supplied and
\* hasStreams absent has returned one channel of two
C10_Witness ==
    /\ AdvancedSucceeded
    /\ Truthy(req.query.q) /\ Truthy(req.query.country) /\ Truthy(req.query.category)
    /\ req.query.nsfw = StrFalse
    /\ req.query.hasStreams = Undefined
    /\ Len(bundle.channels) = 2
    /\ resp[1].total = 1

\* the channel lists the category among its categories
Carries(channel, category) ==
    channel.categories # UndefinedList /\ category \in Range(channel.categories)

\* every category some channel of the list carries
CategoriesOf(channels) ==
    UNION { Range(channels[i].categories) :
            i \in {j \in DOMAIN channels : channels[j].categories # UndefinedList} }

\* the id, name and country of each channel of a list
Shown(channels) ==
    [i \in DOMAIN channels |->
        [id |-> channels[i].id, name |-> channels[i].name,
         country |-> channels[i].country]]

\* a /categories request has been answered
CategoriesAnswered ==
    pc = "done" /\ req.handler = "categories" /\ req.method = "GET"

\* C11: /categories returns one entry per distinct category name; an entry's
\* channelCount is the number of channels that carry the category, its
\* topChannels are the first min(channelCount, 5) of them in dataset order,
\* the entries are in non-increasing order of channelCount, and totalChannels
\* is the number of channels of the dataset
C11_CategoriesCounted ==
    CategoriesAnswered =>
        /\ Succeeded
        /\ \A data \in {resp[1].data} :
            /\ {data[i].name : i \in DOMAIN data} = CategoriesOf(bundle.channels)
            /\ \A i, j \in DOMAIN data : i # j => data[i].name # data[j].name
            /\ \A i \in DOMAIN data :
                \A carrying \in {SelectSeq(bundle.channels,
                                    LAMBDA c : Carries(c, data[i].name))} :
                    /\ data[i].channelCount = Len(carrying)
                    /\ Len(data[i].topChannels) <= TopChannelsCap
                    /\ data[i].topChannels =
                         Shown(SubSeq(carrying, 1,
                                      Min(data[i].channelCount, TopChannelsCap)))
            /\ \A i \in 1..(Len(data) - 1) :
                data[i].channelCount >= data[i + 1].channelCount
        /\ resp[1].total = Len(bundle.channels)

\* a category of more than 5 channels comes first although the dataset names
\* another category first
C11_Witness ==
    /\ CategoriesAnswered
    /\ Succeeded
    /\ Len(resp[1].data) = 2
    /\ resp[1].data[1].channelCount > TopChannelsCap
    /\ resp[1].data[1].channelCount > resp[1].data[2].channelCount
    /\ bundle.channels[1].categories # UndefinedList
    /\ bundle.channels[1].categories[1] = resp[1].data[2].name

\* the sum of a list of numbers
RECURSIVE SumOf(_)
SumOf(numbers) ==
    IF numbers = <<>> THEN 0 ELSE Head(numbers) + SumOf(Tail(numbers))

\* how many channels of the list have exactly this country
ChannelsIn(channels, code) ==
    Cardinality({i \in DOMAIN channels : channels[i].country = code})

\* the channelCount of each entry of a /countries response
ReportedCounts ==
    [i \in DOMAIN resp[1].data |->
        IF req.handler = "countriesBundled"
        THEN resp[1].data[i].channelCount
        ELSE resp[1].data[i].channel_count]

\* the channels dataset a /countries request has counted
CountedChannels ==
    IF req.handler = "countriesBundled" THEN bundle.channels ELSE docs.channels

\* C12: the data list of a /countries success response holds only countries
\* with at least one channel, channelCount being the number of channels whose
\* country equals the country code; the list is in non-increasing order of
\* channelCount; and the reported totalChannels is the sum of channelCount
\* over the returned entries
C12_CountriesCounted ==
    (Succeeded /\ req.method = "GET"
               /\ req.handler \in {"countriesBundled", "countriesFetch"}) =>
        /\ \A i \in DOMAIN resp[1].data :
            /\ ReportedCounts[i] >= 1
            /\ ReportedCounts[i] = ChannelsIn(CountedChannels, resp[1].data[i].code)
        /\ \A i \in 1..(Len(resp[1].data) - 1) :
            ReportedCounts[i] >= ReportedCounts[i + 1]
        /\ req.handler = "countriesBundled" => resp[1].total = SumOf(ReportedCounts)

\* the bundled /countries has answered with two countries, the one with more
\* channels first although the dataset lists it after the other, and the third
\* country of the dataset, which has no channel, left out
C12_Witness ==
    /\ Succeeded
    /\ req.handler = "countriesBundled"
    /\ req.query.code = Undefined
    /\ Len(resp[1].data) = 2
    /\ resp[1].data[1].channelCount = 2
    /\ resp[1].data[2].channelCount = 1
    /\ resp[1].total = 3
    /\ Len(bundle.countries) = 3
    /\ \E i, j \in DOMAIN bundle.countries :
        /\ i < j
        /\ bundle.countries[i].code = resp[1].data[2].code
        /\ bundle.countries[j].code = resp[1].data[1].code

\* the spellings of a code that differ from it in letter case alone
Casings(code) ==
    {t \in [DOMAIN code -> {LowerCaseOf[ch] : ch \in DOMAIN LowerCaseOf}
                            \cup DOMAIN LowerCaseOf] :
        toLowerCase(t) = toLowerCase(code)}

\* the bundled /countries has answered a request for the code, in some casing,
\* of a country with at least one channel, without includeChannels=true
AskedCountryWithChannels ==
    /\ pc = "done"
    /\ req.handler = "countriesBundled"
    /\ req.method = "GET"
    /\ ~req.queryThrows
    /\ req.query.includeChannels # StrTrue
    /\ Truthy(req.query.code)
    /\ req.query.code # ArrayValue
    /\ \E i \in DOMAIN bundle.countries :
        /\ toLowerCase(bundle.countries[i].code) = toLowerCase(req.query.code)
        /\ CountryChannels(bundle.channels, bundle.countries[i].code) # <<>>

\* C14: the response of the bundled /countries does not depend on the letter
\* case of the code parameter: for a country with at least one channel, every
\* casing of its code (without includeChannels=true) is answered with the same
\* single country entry, its channels list with the joined streams and logos
\* included
C14_CodeCaseInsensitive ==
    AskedCountryWithChannels =>
        /\ Len(resp) = 1
        /\ Len(resp[1].data) = 1
        /\ resp[1].data[1].withChannels
        /\ \A t \in Casings(req.query.code) :
            CountriesBundledHandler(bundle, [req EXCEPT !.query.code = t]).resp = resp

\* the handlers over the bundled data
BundledHandlers == {"advanced", "channelsBundled", "countriesBundled", "categories"}

\* what a bundled handler leaves for a request, the bundled data being b
BundledOutcome(b, r) ==
    CASE r.handler = "advanced" -> AdvancedHandler(b, r)
      [] r.handler = "channelsBundled" -> ChannelsBundledHandler(b, r)
      [] r.handler = "countriesBundled" -> CountriesBundledHandler(b, r)
      [] r.handler = "categories" -> CategoriesHandler(b, r)

====
